---- MODULE Spec2Model ----
(***************************************************************************)
(* Per-tenant session lifecycle manager of the WhatsApp sender gateway     *)
(* (media-enabled gateway, src/unnamed/part_003).                          *)
(*                                                                         *)
(* One tenant id is modelled.  JavaScript runs handlers to completion      *)
(* between awaits, so every action below is one such segment: it starts at *)
(* a request / timer / I/O completion and runs up to the next await.       *)
(* A continuation that is resumed by a settled promise (a microtask) runs  *)
(* before any timer, I/O completion or new request: NoMicro guards those.  *)
(*                                                                         *)
(* Heap objects (SessionState objects, Client objects, timer handles, the  *)
(* async retry loops) have identities; an identity is reused only when     *)
(* nothing refers to the object any more.                                  *)
(***************************************************************************)
EXTENDS Integers, FiniteSets, Sequences, TLC

\* ---- bounds of the model (simultaneously existing objects) ----
MaxStates == 2
MaxClients == 2
MaxTimers == 1
MaxReaps == 1
MaxLoops == 2
MaxReq == 2
MaxIdLen == 2
MaxToLen == 3

\* ---- program constants ----
maxRetries == 3
MinIdleMs == 10000

StateIds == 1..MaxStates
ClientIds == 1..MaxClients
TimerIds == 1..MaxTimers
ReapIds == 1..MaxReaps
LoopIds == 1..MaxLoops
Procs == 1..MaxReq

NULL == "null"

\* Request bodies of a send: the fields present, and the recipient string.
\* Recipients are strings of digits and "+", bare or followed by '@c.us'.
Digits == {"1", "2"}
Suffix == <<"@", "c", ".", "u", "s">>
RawTo == UNION {[1..n -> Digits \cup {"+"}] : n \in 0..MaxToLen}
Recipients == RawTo \cup {r \o Suffix : r \in RawTo}
Fields == {"to", "text", "message"}
DefaultBody == [fields |-> {"to", "message"}, to |-> <<"1">>]
NoChat == <<>>

\* const { to, message } = req.body; if (!to || !message) return res.status(400)
validBody(b) == "to" \in b.fields /\ b.to # <<>> /\ "message" \in b.fields

\* String(to).replace(/\D/g, '')
stripNonDigits(str) == SelectSeq(str, LAMBDA ch : ch \in Digits)

\* str.includes(sub)
includes(str, sub) ==
  \E i \in 1..(Len(str) - Len(sub) + 1) : SubSeq(str, i, i + Len(sub) - 1) = sub

\* an address that keeps a recipient already carrying '@c.us' as it came
chatIdOf_raw(to) ==
  IF includes(to, Suffix) THEN to ELSE stripNonDigits(to) \o Suffix

\* const phone = ...; const chatId = phone.includes('@c.us') ? phone : `${phone}@c.us`
chatIdOf(to) ==
  LET phone == stripNonDigits(to)
  IN IF includes(phone, Suffix) THEN phone ELSE phone \o Suffix

\* Tenant ids as they arrive in a request: strings over three kinds of character,
\* "a" for the characters of [a-zA-Z0-9_-], "." and "/" (a route parameter is
\* percent-decoded, so it can hold a slash).
Chars == {"a", ".", "/"}
TenantIds == UNION {[1..n -> Chars] : n \in 1..MaxIdLen}
DefaultId == <<"a">>

\* /^[a-zA-Z0-9_-]+$/.test(id)
isValidSessionId(id) == Len(id) >= 1 /\ \A i \in 1..Len(id) : id[i] = "a"

\* BASE_AUTH_DIR, an absolute path
BASE_AUTH_DIR == <<"/", "d">>

\* str.split('/')
RECURSIVE Split(_)
Split(str) ==
  IF str = <<>> THEN << <<>> >>
  ELSE LET r == Split(Tail(str))
       IN IF Head(str) = "/" THEN << <<>> >> \o r
          ELSE << <<Head(str)>> \o Head(r) >> \o Tail(r)

\* path normalisation: "" and "." are skipped, ".." leaves the directory
RECURSIVE Walk(_, _)
Walk(stack, segs) ==
  IF segs = <<>> THEN stack
  ELSE LET g == Head(segs)
           next == IF g = <<>> \/ g = <<".">> THEN stack
                   ELSE IF g = <<".", ".">>
                        THEN IF stack = <<>> THEN stack ELSE SubSeq(stack, 1, Len(stack) - 1)
                        ELSE Append(stack, g)
       IN Walk(next, Tail(segs))

RECURSIVE Render(_)
Render(stack) ==
  IF stack = <<>> THEN <<>> ELSE <<"/">> \o Head(stack) \o Render(Tail(stack))

\* path.resolve(base, id): an absolute id replaces the base
pathResolve(base, id) ==
  LET from == IF Head(id) = "/" THEN <<>> ELSE Walk(<<>>, Split(base))
      out == Render(Walk(from, Split(id)))
  IN IF out = <<>> THEN <<"/">> ELSE out

startsWith(str, prefix) ==
  Len(str) >= Len(prefix) /\ SubSeq(str, 1, Len(prefix)) = prefix

\* getAuthPath(trainerId) throws 'Invalid session path'
getAuthPathThrows(id) == ~startsWith(pathResolve(BASE_AUTH_DIR, id), BASE_AUTH_DIR)

\* new LocalAuth({ clientId }) of whatsapp-web.js accepts /^[-_\w]+$/i only and
\* throws 'Invalid clientId' otherwise
LocalAuthAccepts(id) == \A i \in 1..Len(id) : id[i] = "a"

\* the value of an idleTimer field that holds the handle of a timer that is no
\* longer pending (it fired, or it was cleared without the field being reset)
Stale == -1

VARIABLES
  build,      \* which gateway runs: "media" (src/unnamed/part_003) or "text" (src/server.js)
  IDLE_MS,    \* configured idle duration (environment)
  trainerId,  \* the id by which the requests name the tenant
  body,       \* the JSON body the send requests carry
  chatId,     \* the address computed from the body's recipient, once computed
  quiet,      \* no request and no client event arrives any more
  polled,     \* the tenant's status is read at intervals shorter than IDLE_MS
  sessions,   \* the registry entry of the tenant: a SessionState id, or 0
  states,     \* SessionState objects
  clients,    \* Client objects (the automation resource adapter)
  timers,     \* pending timers created by setIdleReaper
  reaps,      \* teardown callbacks of fired full-length timers, in flight
  loops,      \* running retry loops (the async function stored in s.initializing)
  reqs,       \* HTTP request handlers in flight
  authDisk,   \* the tenant's authentication directory: "absent", "empty", "linked"
  last        \* what the step that produced this state did (responses, completions)

\* src/server.js, the gateway without media: its ensureInitialized has no finally
\* block, its send starts a re-created client itself, its setIdleReaper defers
\* on busy only
Text == build = "text"

vars == <<build, IDLE_MS, trainerId, body, chatId, quiet, polled, sessions, states, clients, timers, reaps, loops, reqs, authDisk, last>>

ZeroState ==
  [client |-> 0, ready |-> FALSE, lastQR |-> NULL, lastError |-> NULL,
   idleTimer |-> 0, initializing |-> 0, busy |-> FALSE]

NoClient == [life |-> "free", conn |-> "none", owner |-> 0]
NoTimer == [status |-> "free", kind |-> "none", s |-> 0]
NoReap == [pc |-> "free", s |-> 0, ss |-> 0, c |-> 0]
NoLoop == [pc |-> "free", s |-> 0, attempt |-> 0, c |-> 0, ss |-> 0, err |-> NULL]
NoReq ==
  [kind |-> "none", pc |-> "idle", s |-> 0, c |-> 0, l |-> 0, ss |-> 0,
   settled |-> "no", via |-> "none", subs |-> {}, tmo |-> FALSE]

\* An event of `last`.
Ev(op, kind, status, err, s) ==
  [op |-> op, kind |-> kind, status |-> status, err |-> err, s |-> s,
   ready |-> FALSE, qr |-> FALSE, via |-> "none", inflight |-> FALSE, tore |-> FALSE]

Min(X) == CHOOSE x \in X : \A y \in X : x <= y

\* The current state as one record, so that the program's functions are
\* state transformers that compose the way their calls do.
Cur ==
  [sessions |-> sessions, states |-> states, clients |-> clients, timers |-> timers,
   reaps |-> reaps, loops |-> loops, reqs |-> reqs, authDisk |-> authDisk, ok |-> TRUE, thrown |-> FALSE, ev |-> {}]

Emit(S, e) == [S EXCEPT !.ev = @ \cup {e}]

\* ---- object identities ----

HasBrowser(S, c) == S.clients[c].life \in {"starting", "up", "broken", "closing"}

StateRef(S, s) ==
  \/ S.sessions = s
  \/ \E p \in Procs : S.reqs[p].pc # "idle" /\ (S.reqs[p].s = s \/ S.reqs[p].ss = s)
  \/ \E l \in LoopIds : S.loops[l].pc \notin {"free", "doneOk", "doneRej"}
                          /\ (S.loops[l].s = s \/ S.loops[l].ss = s)
  \/ \E t \in TimerIds : S.timers[t].status # "free" /\ S.timers[t].s = s
  \/ \E r \in ReapIds : S.reaps[r].pc # "free" /\ (S.reaps[r].s = s \/ S.reaps[r].ss = s)
  \/ \E c \in ClientIds : HasBrowser(S, c) /\ S.clients[c].owner = s
  \/ \E e \in S.ev : e.s = s

\* c is referred to, given the set live of the SessionStates that are
ClientLive(S, c, live) ==
  \/ HasBrowser(S, c)
  \/ \E s \in live : S.states[s].client = c
  \/ \E p \in Procs : S.reqs[p].pc # "idle" /\ S.reqs[p].c = c
  \/ \E l \in LoopIds : S.loops[l].pc # "free" /\ S.loops[l].c = c
  \/ \E r \in ReapIds : S.reaps[r].pc # "free" /\ S.reaps[r].c = c

ClientRef(S, c) == ClientLive(S, c, {s \in StateIds : StateRef(S, s)})

\* ---- canonical numbering ----
\* The identity of a heap object has no meaning beyond "the same object": after
\* every step the objects of each kind are renumbered in a fixed order (the
\* registered SessionState first, an owner's current client first, ...), so that
\* two heaps that differ only in the numbering are one state.

LifeIdx ==
  [fresh |-> 0, starting |-> 1, up |-> 2, broken |-> 3, closing |-> 4, closed |-> 5, free |-> 6]
ConnIdx == [none |-> 0, qr |-> 1, connected |-> 2, ready |-> 3, lost |-> 4]
ErrIdx ==
  [null |-> 0, idle_destroyed |-> 1, auth_failure |-> 2, disconnected |-> 3,
   launch_failed |-> 4, no_client |-> 5]
LoopPcIdx ==
  [new |-> 0, init |-> 1, stop |-> 2, backoff |-> 3, free |-> 4, float |-> 5,
   doneOk |-> 6, doneRej |-> 7]
B2N(b) == IF b THEN 1 ELSE 0

\* A function expression as a table of its values: TLC keeps [x \in D |-> e] as
\* an unevaluated expression until the function is compared with another value.
Table(f) == IF f = <<>> THEN f ELSE f

\* the keys are in order already
Sorted(Ids, key) == \A i \in Ids : i = 1 \/ key[i - 1] <= key[i]

\* the place of each object in the order of its keys (ties keep their order)
SortPerm(Ids, key) ==
  Table([i \in Ids |->
           1 + Cardinality({j \in Ids : key[j] < key[i] \/ (key[j] = key[i] /\ j < i)})])

\* a reference under a renumbering
Ren(perm, x) == IF x <= 0 THEN x ELSE perm[x]

\* a table under a renumbering
Moved(Ids, perm, T) == Table([n \in Ids |-> T[CHOOSE i \in Ids : perm[i] = n]])

\* (Collect has reset the objects nothing refers to: they come last)
StateKey(S) ==
  Table([s \in StateIds |->
     IF S.sessions = s THEN 0
     ELSE IF S.states[s] = ZeroState THEN 1000
     ELSE 500 + B2N(S.states[s].ready) * 250
          + B2N(S.states[s].busy) * 120 + B2N(S.states[s].lastQR # NULL) * 60
          + B2N(S.states[s].client # 0) * 30 + B2N(S.states[s].initializing # 0) * 15
          + B2N(S.states[s].idleTimer # 0) * 7 + ErrIdx[S.states[s].lastError]])

RenStates(S) ==
  LET k == StateKey(S)
      f == SortPerm(StateIds, k)
  IN IF \A s \in StateIds : s = 1 \/ (S.sessions # s /\ S.states[s] = ZeroState) THEN S
     ELSE IF Sorted(StateIds, k) THEN S
     ELSE [S EXCEPT
        !.sessions = Ren(f, @),
        !.states = Moved(StateIds, f, @),
        !.clients = Table([c \in ClientIds |-> [@[c] EXCEPT !.owner = Ren(f, @)]]),
        !.timers = Table([x \in TimerIds |-> [@[x] EXCEPT !.s = Ren(f, @)]]),
        !.reaps = Table([r \in ReapIds |-> [@[r] EXCEPT !.s = Ren(f, @), !.ss = Ren(f, @)]]),
        !.loops = Table([l \in LoopIds |-> [@[l] EXCEPT !.s = Ren(f, @), !.ss = Ren(f, @)]]),
        !.reqs = Table([p \in Procs |-> [@[p] EXCEPT !.s = Ren(f, @), !.ss = Ren(f, @)]]),
        !.ev = {[e EXCEPT !.s = Ren(f, @)] : e \in @}]

ClientKey(S) ==
  Table([c \in ClientIds |->
     IF S.clients[c].life = "free" THEN 10000
     ELSE S.clients[c].owner * 1000
          + B2N(S.clients[c].owner = 0 \/ S.states[S.clients[c].owner].client # c) * 500
          + LifeIdx[S.clients[c].life] * 10 + ConnIdx[S.clients[c].conn]])

RenClients(S) ==
  LET k == ClientKey(S)
      f == SortPerm(ClientIds, k)
  IN IF \A c \in ClientIds : c = 1 \/ S.clients[c].life = "free" THEN S
     ELSE IF Sorted(ClientIds, k) THEN S
     ELSE [S EXCEPT
        !.clients = Moved(ClientIds, f, @),
        !.states = Table([s \in StateIds |-> [@[s] EXCEPT !.client = Ren(f, @)]]),
        !.reaps = Table([r \in ReapIds |-> [@[r] EXCEPT !.c = Ren(f, @)]]),
        !.loops = Table([l \in LoopIds |-> [@[l] EXCEPT !.c = Ren(f, @)]]),
        !.reqs = Table([p \in Procs |-> [@[p] EXCEPT !.c = Ren(f, @)]])]

LoopKey(S) ==
  Table([l \in LoopIds |->
     IF S.loops[l].pc = "free" THEN 10000
     ELSE S.loops[l].s * 1000 + B2N(S.states[S.loops[l].s].initializing # l) * 500
          + LoopPcIdx[S.loops[l].pc] * 100 + S.loops[l].attempt * 10 + ErrIdx[S.loops[l].err]])

RenLoops(S) ==
  LET k == LoopKey(S)
      f == SortPerm(LoopIds, k)
  IN IF \A l \in LoopIds : l = 1 \/ S.loops[l].pc = "free" THEN S
     ELSE IF Sorted(LoopIds, k) THEN S
     ELSE [S EXCEPT
        !.loops = Moved(LoopIds, f, @),
        !.states = Table([s \in StateIds |-> [@[s] EXCEPT !.initializing = Ren(f, @)]]),
        !.reqs = Table([p \in Procs |-> [@[p] EXCEPT !.l = Ren(f, @)]])]

TimerKey(S) ==
  Table([x \in TimerIds |->
     IF S.timers[x].status = "free" THEN 10000
     ELSE S.timers[x].s * 100 + B2N(S.timers[x].kind = "reap") * 10
          + B2N(\A s \in StateIds : S.states[s].idleTimer # x)])

RenTimers(S) ==
  LET k == TimerKey(S)
      f == SortPerm(TimerIds, k)
  IN IF \A x \in TimerIds : x = 1 \/ S.timers[x].status = "free" THEN S
     ELSE IF Sorted(TimerIds, k) THEN S
     ELSE [S EXCEPT
        !.timers = Moved(TimerIds, f, @),
        !.states = Table([s \in StateIds |-> [@[s] EXCEPT !.idleTimer = Ren(f, @)]])]

ReapKey(S) ==
  Table([r \in ReapIds |->
     IF S.reaps[r].pc = "free" THEN 10000
     ELSE S.reaps[r].s * 1000 + S.reaps[r].ss * 100 + S.reaps[r].c * 10
          + B2N(S.reaps[r].pc = "stop")])

RenReaps(S) ==
  LET k == ReapKey(S)
  IN IF \A r \in ReapIds : r = 1 \/ S.reaps[r].pc = "free" THEN S
     ELSE IF Sorted(ReapIds, k) THEN S
     ELSE [S EXCEPT !.reaps = Moved(ReapIds, SortPerm(ReapIds, k), @)]

\* The handlers in flight, moved to the lowest slots (slots have no meaning).
Compact(R) ==
  IF \A p \in Procs : p = 1 \/ R[p].pc = "idle" \/ R[p - 1].pc # "idle" THEN R
  ELSE LET busy == {p \in Procs : R[p].pc # "idle"}
           rank(p) == Cardinality({q \in busy : q <= p})
       IN Table([i \in Procs |-> IF i <= Cardinality(busy)
                                 THEN R[CHOOSE p \in busy : rank(p) = i] ELSE NoReq])

\* Objects nothing refers to are dropped (garbage), so their identities can be reused.
Collect(S) ==
  LET liveS == {s \in StateIds : StateRef(S, s)}
      liveC == {c \in ClientIds : ClientLive(S, c, liveS)}
  IN [S EXCEPT
        !.states = Table([s \in StateIds |-> IF s \in liveS THEN S.states[s] ELSE ZeroState]),
        !.clients = Table([c \in ClientIds |-> IF c \in liveC THEN S.clients[c] ELSE NoClient]),
        !.loops = IF ~Text THEN @
                  ELSE Table([l \in LoopIds |->
                                IF S.loops[l].pc \in {"doneOk", "doneRej"}
                                   /\ S.loops[l].s \notin liveS
                                THEN NoLoop ELSE S.loops[l]]),
        !.reqs = Compact(S.reqs)]

\* (each stage is evaluated once: \E over a singleton binds its value)
Normalize(G) ==
  CHOOSE N \in UNION {UNION {UNION {{RenReaps(D) : D \in {RenTimers(C)}}
                                       : C \in {RenLoops(B)}}
                               : B \in {RenClients(A)}}
                      : A \in {RenStates(G)}} : TRUE

Commit(S) ==
  /\ \E T \in {S} : T.ok /\ \E G \in {Collect(T)} : \E N \in {Normalize(G)} :
        /\ sessions' = N.sessions
        /\ states' = N.states
        /\ clients' = N.clients
        /\ timers' = N.timers
        /\ reaps' = N.reaps
        /\ loops' = N.loops
        /\ reqs' = N.reqs
        /\ authDisk' = N.authDisk
        /\ last' = N.ev
  /\ UNCHANGED <<build, IDLE_MS, trainerId, body, chatId, quiet, polled>>

Overflow(S) == [S EXCEPT !.ok = FALSE]

\* A continuation made runnable by a settled promise runs before anything else.
NoMicro == \A p \in Procs : reqs[p].settled = "no"

\* a free handler slot (the lowest one) for an arriving request
Idle(p) == reqs[p].pc = "idle" /\ \A q \in Procs : q < p => reqs[q].pc # "idle"

\* ---- session manager ----

\* sessions.set in getOrCreateState: a zero-valued entry if the tenant has none
getOrCreateState(S) ==
  IF S.sessions # 0 THEN S
  ELSE LET F == {s \in StateIds : ~StateRef(S, s)}
       IN IF F = {} THEN Overflow(S)
          ELSE [S EXCEPT !.sessions = Min(F), !.states[Min(F)] = ZeroState]

\* timer t is no longer pending: a field that still holds its handle is stale
expire(S, t) ==
  [S EXCEPT !.timers[t] = NoTimer,
            !.states = [x \in StateIds |->
                          IF S.states[x].idleTimer = t
                          THEN [S.states[x] EXCEPT !.idleTimer = Stale] ELSE S.states[x]]]

\* clearTimeout(handle): a pending timer is cancelled; a fired one is unaffected
clearTimeout(S, t) == IF t > 0 THEN expire(S, t) ELSE S

\* if (s.idleTimer) { clearTimeout(s.idleTimer); s.idleTimer = null; }
clearIdle(S, s) ==
  [clearTimeout(S, S.states[s].idleTimer) EXCEPT !.states[s].idleTimer = 0]

\* s.idleTimer = setTimeout(callback, ...): the callback of a "reap" timer closes
\* over the state object s, the one of a "recheck" timer only over the tenant id
setTimeoutIdle(S, s, kind) ==
  LET F == {t \in TimerIds : S.timers[t].status = "free"}
  IN IF F = {} THEN Overflow(S)
     ELSE [S EXCEPT !.timers[Min(F)] =
                       [NoTimer EXCEPT !.status = "pending", !.kind = kind,
                                       !.s = IF kind = "reap" THEN s ELSE 0],
                    !.states[s].idleTimer = Min(F)]

\* a variant of setIdleReaper that is disabled by IDLE_MS = 0 only
setIdleReaper_zeroOnly(S) ==
  IF S.sessions = 0 THEN S
  ELSE LET s == S.sessions
           S1 == clearIdle(S, s)
       IN IF IDLE_MS = 0 THEN S1
          ELSE IF S1.states[s].busy \/ (~Text /\ S1.states[s].initializing # 0)
               THEN setTimeoutIdle(S1, s, "recheck")
               ELSE setTimeoutIdle(S1, s, "reap")

\* a variant of setIdleReaper that arms nothing while busy or initializing is set
setIdleReaper_noRecheck(S) ==
  IF S.sessions = 0 THEN S
  ELSE LET s == S.sessions
           S1 == clearIdle(S, s)
       IN IF IDLE_MS = 0 \/ IDLE_MS < MinIdleMs THEN S1
          ELSE IF S1.states[s].busy \/ (~Text /\ S1.states[s].initializing # 0) THEN S1
          ELSE setTimeoutIdle(S1, s, "reap")

setIdleReaper(S) ==
  IF S.sessions = 0 THEN S
  ELSE LET s == S.sessions
           S1 == clearIdle(S, s)
       IN IF IDLE_MS = 0 \/ IDLE_MS < MinIdleMs THEN S1
          ELSE IF S1.states[s].busy \/ (~Text /\ S1.states[s].initializing # 0)
               THEN setTimeoutIdle(S1, s, "recheck")
               ELSE setTimeoutIdle(S1, s, "reap")

\* getAuthPath; ensureDir(authPath); getOrCreateState; new Client(...) with its
\* handlers closing over `state`; state.client = client.  `thrown`: getAuthPath or
\* the LocalAuth constructor threw.
createClientInstance(S) ==
  IF getAuthPathThrows(trainerId) THEN [S EXCEPT !.thrown = TRUE]
  ELSE LET S1 == getOrCreateState([S EXCEPT !.authDisk = IF @ = "absent" THEN "empty" ELSE @])
           s == S1.sessions
           F == {c \in ClientIds : ~ClientRef(S1, c)}
       IN IF ~S1.ok \/ F = {} THEN Overflow(S1)
          ELSE IF ~LocalAuthAccepts(trainerId) THEN [S1 EXCEPT !.thrown = TRUE]
          ELSE [S1 EXCEPT !.clients[Min(F)] = [life |-> "fresh", conn |-> "none", owner |-> s],
                          !.states[s].client = Min(F),
                          !.states[s].lastError = IF Text THEN @ ELSE NULL]

ensureClientInstance(S) ==
  LET S1 == getOrCreateState(S)
  IN IF ~S1.ok THEN S1
     ELSE IF S1.states[S1.sessions].client = 0 THEN createClientInstance(S1) ELSE S1

\* ---- the automation resource adapter (whatsapp-web.js Client), at its boundary ----

\* client.initialize(): (re)launches the browser of the client
initialize(S, c) == [S EXCEPT !.clients[c].life = "starting", !.clients[c].conn = "none"]

\* client.destroy() is called: the browser, if any, starts closing
destroy(S, c) ==
  IF HasBrowser(S, c) THEN [S EXCEPT !.clients[c].life = "closing"] ELSE S

\* a client.destroy() call has completed
destroyed(S, c) ==
  IF c # 0 /\ S.clients[c].life = "closing"
  THEN [S EXCEPT !.clients[c].life = "closed", !.clients[c].conn = "none"]
  ELSE S

\* client.getState() resolves to 'CONNECTED'
Connected(S, c) ==
  c # 0 /\ S.clients[c].life \in {"starting", "up"} /\ S.clients[c].conn \in {"connected", "ready"}

\* ---- stopClientKeepAuth ----

\* a stopClientKeepAuth that marks the state not ready but keeps the client handle
stopClientKeepAuthTail_keepClient(S, ss) ==
  IF ss = 0 THEN S
  ELSE [S EXCEPT !.states[ss].ready = FALSE,
                 !.states[ss].lastQR = NULL, !.states[ss].lastError = NULL]

\* a stopClientKeepAuth that ends like destroySession: sessions.delete(trainerId)
stopClientKeepAuthTail_asDestroy(S, ss) ==
  IF ss = 0 THEN S
  ELSE [S EXCEPT !.states[ss].client = 0, !.states[ss].ready = FALSE,
                 !.states[ss].lastQR = NULL, !.states[ss].lastError = NULL,
                 !.sessions = 0]

\* the assignments after the await of client.destroy()
stopClientKeepAuthTail(S, ss) ==
  IF ss = 0 THEN S
  ELSE [S EXCEPT !.states[ss].client = 0, !.states[ss].ready = FALSE,
                 !.states[ss].lastQR = NULL, !.states[ss].lastError = NULL]

\* stopClientKeepAuth(trainerId) up to its await: aw tells whether it suspends on
\* client.destroy() (ss: its local s, c: the client being destroyed); destroy() of
\* a client that never launched a browser rejects at once and is swallowed
stopClientKeepAuth(S) ==
  IF S.sessions = 0 THEN [S |-> S, aw |-> FALSE, ss |-> 0, c |-> 0]
  ELSE LET ss == S.sessions
           S1 == clearIdle(S, ss)
           c == S1.states[ss].client
       IN IF c # 0 /\ S1.clients[c].life # "fresh"
          THEN [S |-> destroy(S1, c), aw |-> TRUE, ss |-> ss, c |-> c]
          ELSE [S |-> stopClientKeepAuthTail(S1, ss), aw |-> FALSE, ss |-> ss, c |-> 0]

\* ---- idle reaper: the timer callbacks ----

\* a teardown callback that ends with stopClientKeepAuth's assignments only
reapTail_asStop(S, s) ==
  [S EXCEPT !.states[s].ready = FALSE, !.states[s].lastQR = NULL,
            !.states[s].lastError = NULL, !.states[s].client = 0]

\* the assignments of the teardown callback after stopClientKeepAuth
reapTail(S, s) ==
  [S EXCEPT !.states[s].ready = FALSE, !.states[s].lastQR = NULL,
            !.states[s].lastError = "idle_destroyed", !.states[s].client = 0,
            !.states[s].idleTimer = 0]

\* the callback has finished; tore: it destroyed or removed a client of s
reapDone(S, r, tore) ==
  LET s == S.reaps[r].s
  IN Emit([reapTail(S, s) EXCEPT !.reaps[r] = NoReap],
          [Ev("reaped", "timer", 0, NULL, s) EXCEPT !.tore = tore])

\* the full-length timer fires: the teardown callback runs up to its await
ReapFire(t) ==
  /\ NoMicro
  /\ timers[t].status = "pending" /\ timers[t].kind = "reap"
  /\ \E r \in ReapIds :
       /\ reaps[r].pc = "free" /\ \A q \in ReapIds : q < r => reaps[q].pc # "free"
       /\ LET s == timers[t].s
              S0 == [expire(Cur, t) EXCEPT !.reaps[r] = [NoReap EXCEPT !.pc = "run", !.s = s]]
              k == stopClientKeepAuth(S0)
          IN IF states[s].client = 0 THEN Commit(reapDone(S0, r, FALSE))
             ELSE IF k.aw
                  THEN Commit(Emit([k.S EXCEPT !.reaps[r].pc = "stop", !.reaps[r].ss = k.ss,
                                               !.reaps[r].c = k.c],
                                   [Ev("reaping", "timer", 0, NULL, s) EXCEPT !.tore = TRUE]))
                  ELSE Commit(reapDone(k.S, r, TRUE))

\* client.destroy() awaited by the teardown callback completes
ReapStopped(r) ==
  /\ NoMicro
  /\ reaps[r].pc = "stop"
  /\ Commit(reapDone(stopClientKeepAuthTail(destroyed(Cur, reaps[r].c), reaps[r].ss), r,
                     states[reaps[r].ss].client # 0 \/ states[reaps[r].s].client # 0))

\* the 1-second re-check timer fires: setIdleReaper(trainerId)
RecheckFire(t) ==
  /\ NoMicro
  /\ timers[t].status = "pending" /\ timers[t].kind = "recheck"
  /\ Commit(setIdleReaper(expire(Cur, t)))

\* ---- ensureInitialized: the retry loop stored in s.initializing ----

\* finally { s.initializing = null }, and the promise settles: every handler that
\* awaits it becomes runnable
settle(S, l, outcome) ==
  [S EXCEPT !.states[S.loops[l].s].initializing = IF Text THEN @ ELSE 0,
            !.loops[l] = IF Text
                         THEN [NoLoop EXCEPT !.s = S.loops[l].s,
                                             !.pc = IF outcome = "ok" THEN "doneOk" ELSE "doneRej"]
                         ELSE NoLoop,
            !.reqs = [p \in Procs |->
                        IF S.reqs[p].l = l /\ S.reqs[p].pc \in {"eiOwn", "eiWait", "wfrInit"}
                        THEN [S.reqs[p] EXCEPT !.settled = outcome, !.l = 0]
                        ELSE S.reqs[p]]]

\* after the catch block's stopClientKeepAuth: back off, or throw lastError
loopAfterStop(S, l) ==
  IF S.loops[l].attempt < maxRetries
  THEN [S EXCEPT !.loops[l].pc = "backoff", !.loops[l].ss = 0, !.loops[l].c = 0]
  ELSE Emit(settle(S, l, "rej"), Ev("exhausted", "loop", 0, S.loops[l].err, S.loops[l].s))

\* catch (err): s.ready = false; s.lastError = err.message; stopClientKeepAuth
loopCatch(S, l, msg) ==
  LET s == S.loops[l].s
      S1 == [S EXCEPT !.states[s].ready = FALSE, !.states[s].lastError = msg,
                      !.loops[l].err = msg]
      r == stopClientKeepAuth(S1)
  IN IF r.aw
     THEN [r.S EXCEPT !.loops[l].pc = "stop", !.loops[l].ss = r.ss, !.loops[l].c = r.c]
     ELSE loopAfterStop(r.S, l)

\* attempt++; await s.client.initialize()  (a TypeError when s.client is null)
loopAttempt(S, l) ==
  LET s == S.loops[l].s
      c == S.states[s].client
      S1 == [S EXCEPT !.loops[l].attempt = @ + 1]
  IN IF c = 0 THEN loopCatch(S1, l, "no_client")
     ELSE [initialize(S1, c) EXCEPT !.loops[l].pc = "init", !.loops[l].c = c]

\* s.initializing = (async () => {...})(): the loop runs up to its first await
startLoop(S, p) ==
  LET s == S.sessions
      F == {l \in LoopIds : S.loops[l].pc = "free"}
      l == Min(F)
  IN IF ~S.ok \/ F = {} THEN Overflow(S)
     ELSE loopAttempt(
            [S EXCEPT !.states[s].initializing = l,
                      !.states[s].lastError = IF @ = "idle_destroyed" /\ ~Text THEN NULL ELSE @,
                      !.loops[l] = [NoLoop EXCEPT !.pc = "new", !.s = s],
                      !.reqs[p].pc = "eiOwn", !.reqs[p].l = l, !.reqs[p].s = s], l)

\* await s.initializing at position pc of handler p: a promise that has settled
\* already resumes the handler at once
awaitLoop(S, p, pc, l) ==
  LET done == S.loops[l].pc \in {"doneOk", "doneRej"}
  IN [S EXCEPT !.reqs[p].pc = pc,
               !.reqs[p].l = IF done THEN 0 ELSE l,
               !.reqs[p].settled = IF S.loops[l].pc = "doneOk" THEN "ok"
                                   ELSE IF S.loops[l].pc = "doneRej" THEN "rej" ELSE "no"]

\* what `last` tells of an ensureInitialized call: the branch it took (via) and
\* whether s.initializing was set when it was called
ensured(S, S0, p, branch) ==
  Emit(S, [Ev("ensure", S0.reqs[p].kind, 0, NULL, S0.sessions) EXCEPT
             !.via = branch, !.inflight = S0.states[S0.sessions].initializing # 0])

\* ensureInitialized without its `if (s.initializing)` branch: a caller that is
\* not on the fast path always starts a loop of its own
ensureInitialized_restart(S, p) ==
  LET S0 == getOrCreateState(S)
      s == S0.sessions
  IN IF ~S0.ok THEN S0
     ELSE IF S0.states[s].ready /\ S0.states[s].client # 0
          THEN ensured([setIdleReaper(S0) EXCEPT !.reqs[p].pc = "eiFast", !.reqs[p].s = s],
                       S0, p, "fast")
          ELSE ensured(startLoop(ensureClientInstance(S0), p), S0, p, "own")

\* ensureInitialized(trainerId) up to its await; reqs[p].pc tells how it went on:
\* "eiFast" returned at once, "eiWait" awaits the stored promise, "eiOwn" started
\* the loop and awaits it
ensureInitialized(S, p) ==
  LET S0 == getOrCreateState(S)
      s == S0.sessions
  IN IF ~S0.ok THEN S0
     ELSE IF S0.states[s].ready /\ S0.states[s].client # 0
          THEN ensured([setIdleReaper(S0) EXCEPT !.reqs[p].pc = "eiFast", !.reqs[p].s = s],
                       S0, p, "fast")
          ELSE IF S0.states[s].initializing # 0
               THEN ensured(awaitLoop([S0 EXCEPT !.reqs[p].s = s], p, "eiWait",
                                      S0.states[s].initializing),
                            S0, p, "wait")
               ELSE ensured(startLoop(ensureClientInstance(S0), p), S0, p, "own")

\* client.initialize() resolves: the success path of the loop, then finally
InitializeResolves(l) ==
  /\ NoMicro
  /\ loops[l].pc = "init"
  /\ clients[loops[l].c].life = "starting"
  /\ LET s == loops[l].s
         S1 == [Cur EXCEPT !.clients[loops[l].c].life = "up", !.states[s].lastError = NULL]
     IN Commit(Emit(settle(setIdleReaper(S1), l, "ok"), Ev("initOk", "loop", 0, NULL, s)))

\* client.initialize() rejects (the launch failed, or the client was destroyed)
InitializeRejects(l) ==
  /\ NoMicro
  /\ loops[l].pc = "init"
  /\ LET c == loops[l].c
         S1 == IF clients[c].life = "starting" THEN [Cur EXCEPT !.clients[c].life = "broken"]
               ELSE Cur
     IN Commit(loopCatch(S1, l, "launch_failed"))

\* client.destroy() awaited by the catch block's stopClientKeepAuth completes
LoopStopped(l) ==
  /\ NoMicro
  /\ loops[l].pc = "stop"
  /\ Commit(loopAfterStop(stopClientKeepAuthTail(destroyed(Cur, loops[l].c), loops[l].ss), l))

\* the backoff delay has passed: next attempt
LoopBackoff(l) ==
  /\ NoMicro
  /\ loops[l].pc = "backoff"
  /\ Commit(loopAttempt(Cur, l))

\* the initialize() call that src/server.js's send did not await resolves
FloatResolves(l) ==
  /\ NoMicro
  /\ loops[l].pc = "float"
  /\ clients[loops[l].c].life = "starting"
  /\ Commit([Cur EXCEPT !.clients[loops[l].c].life = "up", !.loops[l] = NoLoop])

\* ... or rejects: nothing handles the rejection
FloatRejects(l) ==
  /\ NoMicro
  /\ loops[l].pc = "float"
  /\ LET c == loops[l].c
         S1 == IF clients[c].life = "starting" THEN [Cur EXCEPT !.clients[c].life = "broken"]
               ELSE Cur
     IN Commit(Emit([S1 EXCEPT !.loops[l] = NoLoop],
                    Ev("unhandled", "initialize", 0, "launch_failed", loops[l].s)))

\* ---- POST /sessions/:id/send and /sendMedia ----
\* The two handlers run the same session steps (recreate, busy, waitForReady,
\* waitForConnected, isRegisteredUser, sendMessage, finally); a request of kind
\* "send" stands for either.

\* res.status(status).json(...)
respond(S, p, status, err) ==
  Emit(S, [Ev("respond", S.reqs[p].kind, status, err, S.reqs[p].s) EXCEPT
             !.via = S.reqs[p].via])

\* a finally block that re-arms the idle timer but leaves busy set
sendFinally_keepBusy(S, p) ==
  [setIdleReaper(S) EXCEPT !.reqs[p] = [NoReq EXCEPT !.subs = S.reqs[p].subs,
                                                     !.tmo = S.reqs[p].tmo]]

\* the handler is over; what its waitForReady left subscribed or pending stays
handlerDone(S, p) == [NoReq EXCEPT !.subs = S.reqs[p].subs, !.tmo = S.reqs[p].tmo]

\* a finally block that clears busy but does not re-arm the idle timer
sendFinally_noRearm(S, p) ==
  [S EXCEPT !.states[S.reqs[p].s].busy = FALSE, !.reqs[p] = handlerDone(S, p)]

\* finally { state.busy = false; setIdleReaper(sessionId) }
sendFinally(S, p) ==
  [setIdleReaper([S EXCEPT !.states[S.reqs[p].s].busy = FALSE]) EXCEPT
     !.reqs[p] = handlerDone(S, p)]

\* catch (err) { res.status(500).json({ error: err.message }) } finally {...}
sendCatch(S, p, err) == sendFinally(respond(S, p, 500, err), p)

\* await waitForConnected(client): up to its first client.getState()
waitForConnected(S, p, c) ==
  [S EXCEPT !.reqs[p].pc = "wfc", !.reqs[p].c = c, !.reqs[p].settled = "no"]

\* the events a racing waitForReady subscribes to with client.once
RaceEvents == {"ready", "auth_failure", "disconnected", "qr"}

\* a cleanup that leaves the 'qr' listener subscribed
cleanup_keepQr(S, p) ==
  [S EXCEPT !.reqs[p].tmo = FALSE, !.reqs[p].subs = @ \cap {"qr"}]

\* cleanup(): settled = true; clearTimeout(t); client.off(...) of the four
\* listeners.  (settled is the race being over: reqs[p].pc # "race")
cleanup(S, p) ==
  [S EXCEPT !.reqs[p].tmo = FALSE, !.reqs[p].subs = {}]

\* waitForReady: the promise with the four listeners, the timeout and the poll
race(S, p) ==
  LET c == S.states[S.reqs[p].s].client
  IN IF c = 0 THEN sendCatch(S, p, "no_client")
     ELSE [S EXCEPT !.reqs[p].pc = "race", !.reqs[p].c = c, !.reqs[p].settled = "no",
                    !.reqs[p].subs = RaceEvents, !.reqs[p].tmo = TRUE]

\* waitForReady(state) up to its first await
waitForReady(S, p) ==
  LET st == S.states[S.reqs[p].s]
  IN IF st.client = 0 THEN sendCatch(S, p, "not_initialized")
     ELSE IF st.lastQR # NULL THEN sendCatch(S, p, "auth_required")
     ELSE IF st.ready THEN waitForConnected(S, p, st.client)
     ELSE IF st.initializing # 0
          THEN awaitLoop(S, p, "wfrInit", st.initializing)
          ELSE race(S, p)

\* state.busy = true; if (state.idleTimer) clearTimeout(state.idleTimer); try {...
\* (src/server.js also sets state.idleTimer = null)
sendBusy(S, p) ==
  LET s == S.reqs[p].s
  IN waitForReady(
       [(IF Text THEN clearIdle(S, s) ELSE clearTimeout(S, S.states[s].idleTimer))
          EXCEPT !.states[s].busy = TRUE], p)

\* state.client.initialize() of src/server.js's send: the call is not awaited;
\* the promise it returns is held by nobody
floatInitialize(S) ==
  LET s == S.sessions
      c == S.states[s].client
      F == {l \in LoopIds : S.loops[l].pc = "free"}
  IN IF ~S.ok \/ F = {} THEN Overflow(S)
     ELSE [initialize(S, c) EXCEPT
             !.loops[Min(F)] = [NoLoop EXCEPT !.pc = "float", !.s = s, !.c = c]]

\* what follows `await ensureInitialized(sessionId)`, by the caller
afterEnsure(S, p, resolved) ==
  LET cur == S.sessions
  IN IF S.reqs[p].kind = "create"
     THEN [Emit(S, [Ev("respond", "create", 200,
                       IF cur = 0 THEN NULL ELSE S.states[cur].lastError, cur) EXCEPT
                      !.ready = cur # 0 /\ S.states[cur].ready,
                      !.qr = cur # 0 /\ S.states[cur].lastQR # NULL])
             EXCEPT !.reqs[p] = NoReq]
     ELSE IF resolved THEN sendBusy(S, p)
          ELSE [Emit(S, [Ev("unhandled", S.reqs[p].kind, 0, NULL, S.reqs[p].s) EXCEPT
                           !.via = S.reqs[p].via])
                  EXCEPT !.reqs[p] = NoReq]

\* the handler from the registry lookup on, up to its first await
SendStart(p) ==
  /\ NoMicro
  /\ Idle(p)
  /\ IF ~validBody(body)
     THEN Commit(Emit(Cur, [Ev("respond", "send", 400, "missing_field", 0) EXCEPT
                             !.via = "direct"]))
     ELSE IF sessions = 0 \/ states[sessions].client = 0
     THEN LET S1 == IF sessions # 0 THEN stopClientKeepAuth(Cur).S ELSE Cur
              S2 == createClientInstance(S1)
              via == IF sessions # 0 /\ states[sessions].lastError = "idle_destroyed"
                     THEN "idle" ELSE "recreate"
              R2 == [S2 EXCEPT !.reqs[p] = [NoReq EXCEPT !.kind = "send", !.via = via,
                                                        !.pc = "start", !.s = S2.sessions]]
              S3 == ensureInitialized(R2, p)
          IN /\ S2.ok
             /\ Commit(IF S2.thrown
                       THEN Emit(S2, [Ev("unhandled", "send", 0, "invalid_id", S2.sessions)
                                        EXCEPT !.via = via])
                       ELSE IF Text
                       THEN (IF floatInitialize(R2).ok THEN sendBusy(floatInitialize(R2), p)
                             ELSE floatInitialize(R2))
                       ELSE IF S3.ok /\ S3.reqs[p].pc = "eiFast" THEN afterEnsure(S3, p, TRUE)
                       ELSE S3)
     ELSE Commit(sendBusy([Cur EXCEPT !.reqs[p] = [NoReq EXCEPT !.kind = "send", !.via = "direct",
                                                              !.pc = "start", !.s = sessions]], p))

\* the awaited s.initializing has settled: ensureInitialized returns or rejects
EnsureResumes(p) ==
  /\ reqs[p].settled # "no" /\ reqs[p].pc \in {"eiOwn", "eiWait"}
  /\ LET resolved == /\ reqs[p].settled = "ok"
                     /\ reqs[p].pc = "eiWait" => states[reqs[p].s].ready
     IN Commit(afterEnsure([Cur EXCEPT !.reqs[p].settled = "no"], p, resolved))

\* waitForReady after `try { await state.initializing } catch {}`
ReadyWaitResumes(p) ==
  /\ reqs[p].settled # "no" /\ reqs[p].pc = "wfrInit"
  /\ LET st == states[reqs[p].s]
     IN Commit(IF st.ready THEN waitForConnected(Cur, p, st.client) ELSE race(Cur, p))

\* onReady of a racing waitForReady (from the 'ready' listener or the poll)
onReady(S, p) ==
  IF S.reqs[p].pc # "race" THEN S
  ELSE waitForConnected(cleanup([S EXCEPT !.states[S.reqs[p].s].ready = TRUE], p),
                        p, S.reqs[p].c)

\* onFail / onQR / the timeout callback: if (settled) return; cleanup(); reject(...),
\* which the handler catches
raceReject(S, p, err) ==
  IF S.reqs[p].pc # "race" THEN S
  ELSE sendCatch(cleanup(S, p), p, err)

\* the poll of client.getState() returns 'CONNECTED'
RacePoll(p) ==
  /\ NoMicro
  /\ reqs[p].pc = "race" /\ Connected(Cur, reqs[p].c)
  /\ Commit(onReady(Cur, p))

\* a timeout that also stops the client it waited for
RaceTimeout_stop(p) ==
  /\ NoMicro
  /\ reqs[p].tmo
  /\ Commit(raceReject(stopClientKeepAuth(Cur).S, p, "ready_timeout"))

\* the timeout of waitForReady: cleanup(); reject(new Error('Timeout: ...')),
\* caught by the handler
RaceTimeout(p) ==
  /\ NoMicro
  /\ reqs[p].tmo
  /\ Commit(raceReject(Cur, p, "ready_timeout"))

\* waitForConnected(client) and then client.isRegisteredUser(chatId) and
\* client.getNumberId(phone) settle: no session state is touched between them.
\* A recipient that is not registered is answered 404 without sendMessage.
RegisteredResult(p, registered) ==
  /\ NoMicro
  /\ reqs[p].pc = "wfc" /\ Connected(Cur, reqs[p].c)
  /\ IF registered \/ Text THEN Commit([Cur EXCEPT !.reqs[p].pc = "sending"])
     ELSE Commit(sendFinally(respond(Cur, p, 404, "not_registered"), p))

\* waitForConnected times out, or isRegisteredUser / getNumberId throws
ConnectFails(p, err) ==
  /\ NoMicro
  /\ reqs[p].pc = "wfc"
  /\ err = "send_failed" => reqs[p].c # 0
  /\ Commit(sendCatch(Cur, p, err))

\* the IDLE_MS === 0 teardown after a successful send is over: the finally block
zeroDone(S, p) ==
  sendFinally(Emit(S, [Ev("zeroDone", "send", 200, NULL, S.reqs[p].s) EXCEPT
                         !.via = S.reqs[p].via]), p)

\* client.sendMessage(...) settles
SendResult(p, sent) ==
  /\ NoMicro
  /\ reqs[p].pc = "sending"
  /\ IF ~sent THEN Commit(sendCatch(Cur, p, "send_failed"))
     ELSE /\ Connected(Cur, reqs[p].c)
          /\ LET S1 == respond(Cur, p, 200, NULL)
                 r == stopClientKeepAuth(S1)
             IN IF IDLE_MS # 0 THEN Commit(sendFinally(S1, p))
                ELSE IF r.aw
                     THEN Commit([r.S EXCEPT !.reqs[p].pc = "zeroStop",
                                             !.reqs[p].ss = r.ss, !.reqs[p].c = r.c])
                     ELSE Commit(zeroDone(r.S, p))

\* IDLE_MS === 0: the stopClientKeepAuth after the send completes
ZeroStopped(p) ==
  /\ NoMicro
  /\ reqs[p].pc = "zeroStop"
  /\ Commit(zeroDone(stopClientKeepAuthTail(destroyed(Cur, reqs[p].c), reqs[p].ss), p))

\* ---- POST /sessions and GET /sessions/:id/status ----

\* if (!trainerId || !isValidSessionId(trainerId)) return res.status(400)
invalidId(S, kind) == Emit(S, Ev("respond", kind, 400, "invalid_id", 0))

PostSessions(p) ==
  /\ NoMicro
  /\ Idle(p)
  /\ IF ~isValidSessionId(trainerId) THEN Commit(invalidId(Cur, "create"))
     ELSE LET S1 == ensureClientInstance(Cur)
              S2 == ensureInitialized([S1 EXCEPT !.reqs[p] = [NoReq EXCEPT !.kind = "create",
                                                                          !.pc = "start"]], p)
          IN /\ S1.ok
             /\ Commit(IF S2.ok /\ S2.reqs[p].pc = "eiFast" THEN afterEnsure(S2, p, TRUE)
                       ELSE S2)

GetStatus ==
  /\ NoMicro
  /\ sessions # 0
  /\ Commit(Emit(setIdleReaper(Cur),
                 [Ev("respond", "status", 200, states[sessions].lastError, sessions) EXCEPT
                    !.ready = states[sessions].ready,
                    !.qr = states[sessions].lastQR # NULL]))

\* ---- client events: the handlers of createClientInstance, then the listeners ----
\* ---- of the waitForReady calls racing on that client                        ----

RECURSIVE raceListeners(_, _, _, _)
raceListeners(S, c, event, P) ==
  IF P = {} THEN S
  ELSE LET p == Min(P)
           S1 == IF event \in S.reqs[p].subs /\ S.reqs[p].c = c
                 THEN CASE event = "ready" -> onReady(S, p)
                        [] event = "qr" -> raceReject(S, p, "auth_required")
                        [] OTHER -> raceReject(S, p, event)
                 ELSE S
       IN raceListeners(S1, c, event, P \ {p})

\* client.on('qr', ...)
onQrEvent(S, c) ==
  LET o == S.clients[c].owner
  IN setIdleReaper([S EXCEPT !.states[o].lastQR = "qr", !.states[o].ready = FALSE,
                             !.states[o].lastError = NULL])

\* client.on('ready', ...)
onReadyEvent(S, c) ==
  LET o == S.clients[c].owner
  IN setIdleReaper([S EXCEPT !.states[o].ready = TRUE, !.states[o].lastQR = NULL,
                             !.states[o].lastError = NULL])

\* client.on('auth_failure', ...)
onAuthFailureEvent(S, c) ==
  LET o == S.clients[c].owner
  IN setIdleReaper([S EXCEPT !.states[o].ready = FALSE,
                             !.states[o].lastError = "auth_failure"])

\* client.on('disconnected', ...)
onDisconnectedEvent(S, c) ==
  LET o == S.clients[c].owner
  IN setIdleReaper([S EXCEPT !.states[o].ready = FALSE,
                             !.states[o].lastError = "disconnected",
                             !.states[o].lastQR = NULL])

Emitting(c) == NoMicro /\ clients[c].life \in {"starting", "up"}

\* the client shows a challenge (it is not linked)
EvQr(c) ==
  /\ Emitting(c)
  /\ authDisk # "linked" /\ clients[c].conn \in {"none", "qr"}
  /\ Commit(raceListeners(onQrEvent([Cur EXCEPT !.clients[c].conn = "qr"], c), c, "qr", Procs))

\* the challenge was scanned, or the stored authentication was accepted:
\* 'authenticated' is emitted and getState() answers CONNECTED from now on
EvAuthenticated(c) ==
  /\ Emitting(c)
  /\ clients[c].conn = "qr" \/ (clients[c].conn = "none" /\ authDisk = "linked")
  /\ Commit(setIdleReaper([Cur EXCEPT !.clients[c].conn = "connected", !.authDisk = "linked"]))

EvReady(c) ==
  /\ Emitting(c)
  /\ clients[c].conn = "connected"
  /\ Commit(raceListeners(onReadyEvent([Cur EXCEPT !.clients[c].conn = "ready"], c),
                          c, "ready", Procs))

\* the stored authentication was refused
EvAuthFailure(c) ==
  /\ Emitting(c)
  /\ clients[c].conn = "none" /\ authDisk = "linked"
  /\ Commit(raceListeners(onAuthFailureEvent([Cur EXCEPT !.clients[c].conn = "lost"], c),
                          c, "auth_failure", Procs))

EvDisconnected(c) ==
  /\ Emitting(c)
  /\ clients[c].conn \in {"connected", "ready"}
  /\ Commit(raceListeners(onDisconnectedEvent([Cur EXCEPT !.clients[c].conn = "lost"], c),
                          c, "disconnected", Procs))

\* ---- logout / delete ----

\* pruneCaches(authPath); sessions.delete(trainerId)
destroySessionTail(S) == [S EXCEPT !.sessions = 0]

\* destroySession(trainerId) up to its await (as stopClientKeepAuth above)
destroySession(S) ==
  IF S.sessions = 0 THEN [S |-> S, aw |-> FALSE, ss |-> 0, c |-> 0]
  ELSE LET ss == S.sessions
           S1 == clearIdle(S, ss)
           c == S1.states[ss].client
       IN IF c # 0 /\ S1.clients[c].life # "fresh"
          THEN [S |-> destroy(S1, c), aw |-> TRUE, ss |-> ss, c |-> c]
          ELSE [S |-> destroySessionTail(S1), aw |-> FALSE, ss |-> ss, c |-> 0]

\* what follows `await destroySession(id)`, by the caller
afterDestroy(S, p) ==
  IF S.reqs[p].kind = "logout"
  THEN [respond(S, p, 200, NULL) EXCEPT !.reqs[p] = NoReq]
  ELSE [S EXCEPT !.reqs[p].pc = "purge", !.reqs[p].c = 0, !.reqs[p].ss = 0]

callDestroySession(S, p) ==
  LET r == destroySession(S)
  IN IF r.aw THEN [r.S EXCEPT !.reqs[p].pc = "destroying", !.reqs[p].ss = r.ss,
                              !.reqs[p].c = r.c]
     ELSE afterDestroy(r.S, p)

\* POST /sessions/:id/logout for a registered tenant
Logout(p) ==
  /\ NoMicro
  /\ Idle(p) /\ sessions # 0
  /\ LET c == states[sessions].client
         S1 == [Cur EXCEPT !.reqs[p] = [NoReq EXCEPT !.kind = "logout", !.pc = "start",
                                                      !.s = sessions]]
     IN IF ~isValidSessionId(trainerId) THEN Commit(invalidId(Cur, "logout"))
        ELSE IF c # 0 THEN Commit([S1 EXCEPT !.reqs[p].pc = "logout", !.reqs[p].c = c])
        ELSE Commit(callDestroySession(S1, p))

\* client.logout() settles: it unlinks the device and closes the browser, or throws
LogoutResult(p, done) ==
  /\ NoMicro
  /\ reqs[p].pc = "logout"
  /\ LET c == reqs[p].c
     IN IF ~done THEN Commit([respond(Cur, p, 500, "logout_failed") EXCEPT !.reqs[p] = NoReq])
        ELSE /\ clients[c].life \in {"starting", "up"}
             /\ Commit(callDestroySession(
                         [Cur EXCEPT !.clients[c].life = "closed", !.clients[c].conn = "none",
                                     !.authDisk = "empty"], p))

\* DELETE /sessions/:id, requested with ?purge=true or without it (kept in the
\* request's `via`): the handler does not read the parameter (const purge = true)
Delete(p, purge) ==
  /\ NoMicro
  /\ Idle(p)
  /\ Commit(IF ~isValidSessionId(trainerId) THEN invalidId(Cur, "delete")
            ELSE callDestroySession(
                   [Cur EXCEPT !.reqs[p] = [NoReq EXCEPT !.kind = "delete", !.pc = "start",
                                                        !.via = IF purge THEN "purge" ELSE "keep"]],
                   p))

\* client.destroy() awaited by destroySession completes
SessionDestroyed(p) ==
  /\ NoMicro
  /\ reqs[p].pc = "destroying"
  /\ Commit(afterDestroy(destroySessionTail(destroyed(Cur, reqs[p].c)), p))

\* fs.rm(authPath) and fs.rm(mediaPath) complete (purge is always true)
Purged(p) ==
  /\ NoMicro
  /\ reqs[p].pc = "purge"
  /\ Commit([respond([Cur EXCEPT !.authDisk = "absent"], p, 200, "purged") EXCEPT
               !.reqs[p] = NoReq])

\* ---- the system ----

\* The process has started: the registry is empty; the authentication directory
\* of the tenant may be left from an earlier run.
BootOf(b, idle, ids, bodies) ==
  /\ build = b
  /\ IDLE_MS \in idle
  /\ trainerId \in ids
  /\ body \in bodies
  /\ chatId = NoChat
  /\ quiet = FALSE
  /\ polled = FALSE
  /\ sessions = 0
  /\ states = [s \in StateIds |-> ZeroState]
  /\ clients = [c \in ClientIds |-> NoClient]
  /\ timers = [t \in TimerIds |-> NoTimer]
  /\ reaps = [r \in ReapIds |-> NoReap]
  /\ loops = [l \in LoopIds |-> NoLoop]
  /\ reqs = [p \in Procs |-> NoReq]
  /\ authDisk \in IF pathResolve(BASE_AUTH_DIR, trainerId) = BASE_AUTH_DIR
                  THEN {"empty"} ELSE {"absent", "linked"}
  /\ last = {}

\* the media-enabled gateway
BootWith(idle, ids, bodies) == BootOf("media", idle, ids, bodies)

\* the send requests carry a well-formed body
BootAs(idle, ids) == BootWith(idle, ids, {DefaultBody})

\* the requests name the tenant by a well-formed id
Boot(idle) == BootAs(idle, {DefaultId})

Post == \E p \in Procs : PostSessions(p)

\* a send in flight goes on
SendGoesOn ==
  \/ \E p \in Procs : ReadyWaitResumes(p)
  \/ \E p \in Procs : RacePoll(p)
  \/ \E p \in Procs : RaceTimeout(p)
  \/ \E p \in Procs, registered \in BOOLEAN : RegisteredResult(p, registered)
  \/ \E p \in Procs, err \in {"connect_timeout", "send_failed"} : ConnectFails(p, err)
  \/ \E p \in Procs, sent \in BOOLEAN : SendResult(p, sent)

SendSteps == (\E p \in Procs : SendStart(p)) \/ SendGoesOn

LoopSteps ==
  \/ \E p \in Procs : EnsureResumes(p)
  \/ \E l \in LoopIds : InitializeResolves(l)
  \/ \E l \in LoopIds : InitializeRejects(l)
  \/ \E l \in LoopIds : LoopStopped(l)
  \/ \E l \in LoopIds : LoopBackoff(l)

FloatSteps ==
  \/ \E l \in LoopIds : FloatResolves(l)
  \/ \E l \in LoopIds : FloatRejects(l)

TimerSteps ==
  \/ \E t \in TimerIds : ReapFire(t)
  \/ \E r \in ReapIds : ReapStopped(r)
  \/ \E t \in TimerIds : RecheckFire(t)

ClientEvents ==
  \/ \E c \in ClientIds : EvQr(c)
  \/ \E c \in ClientIds : EvAuthenticated(c)
  \/ \E c \in ClientIds : EvReady(c)
  \/ \E c \in ClientIds : EvAuthFailure(c)
  \/ \E c \in ClientIds : EvDisconnected(c)

\* the documented admin reset, DELETE /sessions/:id?purge=true
DeleteSteps ==
  \/ \E p \in Procs : Delete(p, TRUE)
  \/ \E p \in Procs : SessionDestroyed(p)
  \/ \E p \in Procs : Purged(p)

\* DELETE /sessions/:id with and without the purge parameter
DeleteAnySteps ==
  \/ \E p \in Procs, purge \in BOOLEAN : Delete(p, purge)
  \/ \E p \in Procs : SessionDestroyed(p)
  \/ \E p \in Procs : Purged(p)

LogoutSteps ==
  \/ \E p \in Procs : Logout(p)
  \/ \E p \in Procs, done \in BOOLEAN : LogoutResult(p, done)
  \/ \E p \in Procs : SessionDestroyed(p)

\* A deployment whose IDLE_MS is below the 10-second threshold of setIdleReaper
\* (no idle timer is ever armed): POST /sessions, GET status and the sends.
Init == Boot({5000})
Next == Post \/ GetStatus \/ SendSteps \/ LoopSteps \/ ClientEvents
Spec == Init /\ [][Next]_vars

\* The default deployment (IDLE_MS = 30000) under POST /sessions and GET status.
InitDefault == Boot({30000})
NextSessions == Post \/ GetStatus \/ LoopSteps \/ TimerSteps \/ ClientEvents
SpecSessions == InitDefault /\ [][NextSessions]_vars

\* The default deployment under send requests only (a send creates the session).
NextSend == SendSteps \/ LoopSteps \/ TimerSteps \/ ClientEvents
SpecSend == InitDefault /\ [][NextSend]_vars

\* The default deployment under POST /sessions and DELETE /sessions/:id, with a
\* client that stays silent.
NextDelete == Post \/ DeleteSteps \/ LoopSteps \/ TimerSteps
SpecDelete == InitDefault /\ [][NextDelete]_vars

\* The default deployment under POST /sessions and POST /sessions/:id/logout,
\* with a client that stays silent.
NextLogout == Post \/ LogoutSteps \/ LoopSteps \/ TimerSteps
SpecLogout == InitDefault /\ [][NextLogout]_vars

\* The default deployment under POST /sessions and DELETE /sessions/:id with
\* either value of the purge parameter; nothing stays idle long enough for a
\* timer to fire.
NextPurge == Post \/ DeleteAnySteps \/ LoopSteps
SpecPurge == InitDefault /\ [][NextPurge]_vars

\* Send requests only, under the default idle duration and under IDLE_MS = 0
\* (tear down after every successful send): every caller of stopClientKeepAuth.
InitStop == Boot({0, 30000})
NextStop == SendSteps \/ (\E p \in Procs : ZeroStopped(p)) \/ LoopSteps \/ TimerSteps
              \/ ClientEvents
SpecStop == InitStop /\ [][NextStop]_vars

\* Requests that name the tenant by any id, well-formed or not, under the
\* transitions of Spec.
InitIds == BootAs({5000}, TenantIds)
SpecIds == InitIds /\ [][Next]_vars

\* src/server.js under POST /sessions, GET status and the sends, with IDLE_MS
\* below the threshold of setIdleReaper.
InitText == BootOf("text", {5000}, {DefaultId}, {DefaultBody})
NextText == Next \/ FloatSteps
SpecText == InitText /\ [][NextText]_vars

\* Send requests whose body carries any of the fields to, text and message,
\* under the transitions of Spec.
InitBody == BootWith({5000}, {DefaultId}, {[fields |-> f, to |-> <<"1">>] : f \in SUBSET Fields})
SpecBody == InitBody /\ [][Next]_vars

\* The address of a send, for every recipient: lines 613-614 of the handler,
\* which run between waitForConnected and isRegisteredUser.
Addressed ==
  /\ chatId = NoChat
  /\ validBody(body)
  /\ chatId' = chatIdOf(body.to)
  /\ UNCHANGED <<build, IDLE_MS, trainerId, body, quiet, polled, sessions, states, clients, timers, reaps, loops,
                 reqs, authDisk, last>>

InitRecipient ==
  BootWith({5000}, {DefaultId}, {[fields |-> {"to", "message"}, to |-> r] : r \in Recipients})
SpecRecipient == InitRecipient /\ [][Addressed]_vars

\* The sends under the default idle duration, until requests and client events
\* stop arriving (Quiesce); what has been started then completes.
Quiesce ==
  /\ ~quiet
  /\ quiet' = TRUE
  /\ UNCHANGED <<build, IDLE_MS, trainerId, body, chatId, polled, sessions, states, clients,
                 timers, reaps, loops, reqs, authDisk, last>>

\* what arrives from outside: a send request (a second one only while the first
\* awaits the initialization it started, which is when a request waits on the
\* stored promise of another), or an event of a client on its way to 'ready'
Arrival ==
  \/ /\ \A q \in Procs : reqs[q].pc \in {"idle", "eiOwn"}
     /\ \E p \in Procs : SendStart(p)
  \/ \E c \in ClientIds : EvQr(c)
  \/ \E c \in ClientIds : EvAuthenticated(c)
  \/ \E c \in ClientIds : EvReady(c)

\* the steps that need no arrival: a promise of the library settles, a running
\* timeout ends a wait, a due idle timer fires
Settles ==
  \/ \E p \in Procs : EnsureResumes(p)
  \/ \E p \in Procs : ReadyWaitResumes(p)
  \/ \E p \in Procs : RaceTimeout(p)
  \/ \E p \in Procs : ConnectFails(p, "connect_timeout")
  \/ \E p \in Procs, sent \in BOOLEAN : SendResult(p, sent)
  \/ \E l \in LoopIds : InitializeResolves(l) \/ InitializeRejects(l)
  \/ \E l \in LoopIds : LoopStopped(l)
  \/ \E l \in LoopIds : LoopBackoff(l)
  \/ \E x \in TimerIds : ReapFire(x)
  \/ \E r \in ReapIds : ReapStopped(r)

Rechecks == \E x \in TimerIds : RecheckFire(x)

NextIdle == (~quiet /\ Arrival) \/ Quiesce \/ SendGoesOn \/ LoopSteps \/ TimerSteps

\* Each step of Settles happens a bounded number of times once nothing arrives
\* (a loop makes at most maxRetries attempts, a handler in flight ends, a full
\* timer is armed again only by a re-check), so weak fairness of their
\* disjunction gives each of them its turn; the 1-second re-check is the one
\* step that can recur.
SpecIdle == InitDefault /\ [][NextIdle]_vars /\ WF_vars(Settles) /\ WF_vars(Rechecks)

\* Deployments whose IDLE_MS is below the minimum: 0 (tear down after every
\* send), and values on either side of the range below 10000.
LowIdle == {0, 5000, 9999}
InitLow == Boot(LowIdle)
NextLow == Next \/ \E p \in Procs : ZeroStopped(p)
SpecLow == InitLow /\ [][NextLow]_vars

\* From now on the status of the tenant, which holds a client whose browser is
\* starting or running and has no teardown in flight, is read at intervals
\* shorter than IDLE_MS.
PollingBegins ==
  /\ ~polled
  /\ NoMicro
  /\ sessions # 0 /\ states[sessions].client # 0
  /\ clients[states[sessions].client].life \in {"starting", "up"}
  /\ \A r \in ReapIds : reaps[r].pc = "free"
  /\ polled' = TRUE
  /\ UNCHANGED <<build, IDLE_MS, trainerId, body, chatId, quiet, sessions, states, clients,
                 timers, reaps, loops, reqs, authDisk, last>>

\* While the status is polled, the timer that idleTimer holds is restarted by
\* the next status request before it is due; a timer that no field holds runs
\* out as it was set, and the 1-second re-check timer is shorter than any poll.
Polled ==
  \/ GetStatus
  \/ LoopSteps
  \/ \E r \in ReapIds : ReapStopped(r)
  \/ \E t \in TimerIds : RecheckFire(t)
  \/ \E t \in TimerIds : states[sessions].idleTimer # t /\ ReapFire(t)

\* The default deployment under POST /sessions and GET status, and then under
\* GET status alone.
NextPolled == (~polled /\ NextSessions) \/ PollingBegins \/ (polled /\ Polled)
SpecPolled == InitDefault /\ [][NextPolled]_vars

\* what a handler in flight awaits settles: the promise of ensureInitialized or
\* of state.initializing, the timeouts of waitForReady and waitForConnected,
\* sendMessage
HandlerSettles ==
  \/ \E p \in Procs : EnsureResumes(p)
  \/ \E p \in Procs : ReadyWaitResumes(p)
  \/ \E p \in Procs : RaceTimeout(p)
  \/ \E p \in Procs : ConnectFails(p, "connect_timeout")
  \/ \E p \in Procs, sent \in BOOLEAN : SendResult(p, sent)

\* what the retry loop awaits settles: initialize(), destroy(), the backoff delay
LoopSettles ==
  \/ \E l \in LoopIds : InitializeResolves(l) \/ InitializeRejects(l)
  \/ \E l \in LoopIds : LoopStopped(l)
  \/ \E l \in LoopIds : LoopBackoff(l)

\* The transitions of SpecIdle; the handlers and the retry loop get their turn
\* whatever the clients and the idle timers do meanwhile.
SpecFinally ==
  InitDefault /\ [][NextIdle]_vars /\ WF_vars(HandlerSettles) /\ WF_vars(LoopSettles)

\* ---- properties ----

\* a send (or sendMedia) handler between `state.busy = true` and its finally block
SendInProgress(p) ==
  reqs[p].kind = "send" /\ reqs[p].pc \in {"wfrInit", "race", "wfc", "sending", "zeroStop"}

\* C1 (as amended): while an attempt's promise is stored in `initializing`, no
\* later caller of ensureInitialized starts a second retry loop (so no second
\* client.initialize()): every running loop is the one stored in the field of
\* its SessionState, and a caller that finds the field set either returns at
\* once on the fast path (ready with a client) or awaits the stored promise.
C1_SingleAttempt ==
  /\ \A l \in LoopIds : loops[l].pc # "free" => states[loops[l].s].initializing = l
  /\ \A e \in last : e.op = "ensure" /\ e.inflight => e.via \in {"wait", "fast"}
  /\ \A p \in Procs :
       reqs[p].pc = "eiWait" /\ reqs[p].settled = "no"
         => reqs[p].l # 0 /\ reqs[p].l = states[reqs[p].s].initializing

\* two overlapping callers await the same attempt
C1_Overlap ==
  \E p, q \in Procs :
    /\ reqs[p].pc = "eiOwn" /\ reqs[q].pc = "eiWait"
    /\ reqs[p].l # 0 /\ reqs[q].l = reqs[p].l
    /\ \E e \in last : e.op = "ensure" /\ e.inflight /\ e.via = "wait"

\* C1 as stated: every caller that finds `initializing` set awaits the stored promise.
C1_EveryCallerAwaits ==
  \A e \in last : e.op = "ensure" /\ e.inflight => e.via = "wait"

\* C2: at most one client of the tenant is alive (created, destroy() not called,
\* start-up not failed) in every reachable state.
C2_OneLiveClient ==
  Cardinality({c \in ClientIds : clients[c].life \in {"fresh", "starting", "up"}}) <= 1

\* C3: ready == true implies lastQR == null, in every SessionState.
C3_ReadyNoChallenge ==
  \A s \in StateIds : states[s].ready => states[s].lastQR = NULL

\* C4: the idle teardown callback neither starts destroying nor removes a client
\* of a SessionState while a send for it is between its busy mark and its finally.
C4_NoTeardownDuringSend ==
  \A e \in last :
    e.op \in {"reaping", "reaped"} /\ e.tore
      => ~\E p \in Procs : SendInProgress(p) /\ reqs[p].s = e.s

\* C5: busy is true whenever a send is between its busy mark and its finally.
C5_BusyWhileSending ==
  \A p \in Procs : SendInProgress(p) => states[reqs[p].s].busy

\* C6: a send that finds the client removed by the idle teardown creates a new
\* client and puts it through initialization before it waits for readiness: once
\* such a send is in waitForReady's race or beyond, the client it waits on has
\* had initialize() called.
C6_InitializedBeforeWaiting ==
  \A p \in Procs :
    reqs[p].via = "idle" /\ reqs[p].pc \in {"race", "wfc", "sending"}
      => clients[reqs[p].c].life # "fresh"

C8_LastErrorIsFailure ==
  \A e \in last : e.op = "exhausted" => states[e.s].lastError = e.err

\* C9: when the retries are exhausted the tenant has ready == false and
\* client == null, every caller awaiting the attempt is rejected, and no idle
\* timer of the tenant is pending.
C9_ExhaustedClean ==
  \A e \in last :
    e.op = "exhausted"
      => /\ ~states[e.s].ready /\ states[e.s].client = 0
         /\ \A p \in Procs : reqs[p].settled # "ok"
         /\ \A x \in TimerIds : timers[x].status # "pending"

\* C10: a send that fails on a pending challenge or on the readiness timeout is
\* not answered 500 (but precondition-failed 412, resp. 503).
C10_NotAnswered500 ==
  \A e \in last :
    e.op = "respond" /\ e.kind = "send"
      => /\ e.err = "auth_required" => e.status = 412
         /\ e.err = "ready_timeout" => e.status = 503

\* C11: when a send recreates a missing client and start-up fails on every
\* retry, the rejection of ensureInitialized is caught in the handler and the
\* request is answered: no send ends with its rejection escaping the handler.
C11_RecreateFailureAnswered ==
  \A e \in last : ~(e.op = "unhandled" /\ e.kind = "send")

\* C12: a send whose recipient is not registered is answered 404 without
\* client.sendMessage being called (no request enters or leaves the sendMessage
\* call in that step), and afterwards busy is false and the idle timer is armed.
C12_UnregisteredAnswered404 ==
  [][\A e \in last' :
       e.op = "respond" /\ e.kind = "send" /\ e.status = 404
         => /\ Cardinality({p \in Procs : reqs'[p].pc = "sending"})
                 = Cardinality({p \in Procs : reqs[p].pc = "sending"})
            /\ ~states'[e.s].busy
            /\ states'[e.s].idleTimer \in TimerIds
            /\ timers'[states'[e.s].idleTimer].status = "pending"]_vars

\* a send was answered 404 for an unregistered recipient
C12_Answered404 ==
  \E e \in last : e.op = "respond" /\ e.kind = "send" /\ e.status = 404
                    /\ e.err = "not_registered"

\* C13: when a logout request for a registered tenant has completed, the stored
\* authentication of the tenant is no longer usable (the next start-up cannot
\* become ready from it), whether or not a client was present at the logout.
C13_LogoutInvalidatesAuth ==
  \A e \in last :
    e.op = "respond" /\ e.kind = "logout" /\ e.status = 200 => authDisk # "linked"

\* C14: every logout request for a registered tenant, whatever client.logout()
\* did, ends with the client of the tenant destroyed and the entry removed
\* from the registry.
C14_LogoutRemovesSession ==
  \A e \in last :
    e.op = "respond" /\ e.kind = "logout"
      => /\ sessions # e.s
         /\ states[e.s].client # 0 => clients[states[e.s].client].life \notin {"starting", "up"}

\* C15: a DELETE without purge=true leaves the authentication directory of the
\* tenant as it is and reports purged:false.
C15_KeepAuthUnlessPurge ==
  [][\A e \in last' :
       e.op = "respond" /\ e.kind = "delete" /\ e.via = "keep"
         => authDisk' = authDisk /\ e.err # "purged"]_vars

\* C16: on every path that runs stopClientKeepAuth (idle teardown, cleanup after
\* a failed start attempt, the IDLE_MS == 0 teardown, the recreate branch of a
\* send) the registry entry is not removed and the authentication directory is
\* neither removed nor unlinked.
C16_StopKeepsAuthAndEntry ==
  [][/\ sessions # 0 => sessions' # 0
     /\ authDisk # "absent" => authDisk' # "absent"
     /\ authDisk = "linked" => authDisk' = "linked"]_vars

\* stopClientKeepAuth has destroyed the client of a linked tenant after a failed
\* start attempt, and the idle teardown has run through it as well
C16_Stopped ==
  /\ authDisk = "linked" /\ sessions # 0 /\ states[sessions].client = 0
  /\ \E l \in LoopIds : loops[l].pc = "backoff" /\ loops[l].s = sessions
  /\ \E e \in last : e.op = "reaped" /\ e.tore

\* C17: with IDLE_MS == 0, when a successful send has finished, the client is
\* destroyed (client == null, ready == false), the registry entry and the
\* authentication directory remain, and no idle timer is armed.
C17_ZeroIdleTeardown ==
  \A e \in last :
    e.op = "zeroDone" /\ IDLE_MS = 0
      => /\ states[e.s].client = 0 /\ ~states[e.s].ready
         /\ sessions = e.s /\ authDisk = "linked"
         /\ states[e.s].idleTimer = 0
         /\ \A x \in TimerIds : timers[x].status # "pending"

\* a successful direct send under IDLE_MS == 0 has finished
C17_ZeroDone ==
  \E e \in last : e.op = "zeroDone" /\ IDLE_MS = 0 /\ e.via = "direct"

\* C18: for a tenant id that fails /^[a-zA-Z0-9_-]+$/ no step ever creates a
\* client or the tenant's authentication directory, whichever endpoint first
\* references the id.
C18_NoResourceForInvalidId ==
  [][~isValidSessionId(trainerId)
       => /\ \A c \in ClientIds : clients'[c].life = "free"
          /\ authDisk = "absent" => authDisk' = "absent"]_vars

\* C19: when the registered client has emitted 'disconnected' (ready false, the
\* client handle kept, no start-up in flight), a send that arrives re-triggers
\* the initialization of the client: a start-up attempt is in flight after it.
C19_SendReinitializes ==
  [][(/\ sessions # 0
      /\ states[sessions].client # 0
      /\ clients[states[sessions].client].conn = "lost"
      /\ ~states[sessions].ready
      /\ states[sessions].lastError = "disconnected"
      /\ states[sessions].initializing = 0
      /\ Cardinality({p \in Procs : reqs'[p].kind = "send"})
           > Cardinality({p \in Procs : reqs[p].kind = "send"}))
     => \/ sessions' # 0 /\ states'[sessions'].initializing # 0
        \/ \E c \in ClientIds : clients'[c].life = "starting"]_vars

\* C20: a step in which waitForReady times out answers with the timeout error
\* and leaves ready, lastQR and lastError of the SessionState as they were, the
\* client handle set, and the client as alive as it was (it is not destroyed).
C20_TimeoutLeavesState ==
  [][\A e \in last' : e.op = "respond" /\ e.err = "ready_timeout"
       => /\ e.status = 500
          /\ \E p \in Procs :
               /\ reqs[p].pc = "race"
               /\ LET o == states[reqs[p].s]
                      n == states'[e.s]
                  IN /\ n.ready = o.ready
                     /\ n.lastQR = o.lastQR
                     /\ n.lastError = o.lastError
                     /\ (n.client = 0) = (o.client = 0)
                     /\ o.client # 0 =>
                          /\ clients'[n.client].life = clients[o.client].life
                          /\ clients'[n.client].conn = clients[o.client].conn]_vars

\* a send has just been answered with the timeout of waitForReady while the
\* client it waited for is still held and alive
C20_TimedOut ==
  \E e \in last :
    /\ e.op = "respond" /\ e.err = "ready_timeout"
    /\ states[e.s].client # 0
    /\ clients[states[e.s].client].life \in {"starting", "up"}

\* C21: in every reachable state, a SessionState whose ready flag is true holds
\* a client (ready is never true once the client was torn down).
C21_ReadyImpliesClient ==
  \A s \in StateIds : states[s].ready => states[s].client # 0

\* the digits of a string, in order
RECURSIVE DigitsOf(_)
DigitsOf(str) ==
  IF str = <<>> THEN <<>>
  ELSE IF Head(str) \in Digits THEN <<Head(str)>> \o DigitsOf(Tail(str))
  ELSE DigitsOf(Tail(str))

\* C22: the address computed for a recipient is the digits of the recipient, in
\* order, followed by '@c.us', and computing the address of that address
\* gives the same address.
C22_AddressIsDigitsAtCUs ==
  chatId # NoChat =>
    /\ chatId = DigitsOf(body.to) \o Suffix
    /\ chatIdOf(chatId) = chatId

\* an address was computed for a recipient that holds a non-digit before '@c.us'
C22_Normalized ==
  /\ chatId # NoChat
  /\ includes(body.to, Suffix)
  /\ \E i \in 1..Len(body.to) : body.to[i] = "+"

\* C23: a send whose body carries to and text is not answered 400.
C23_ToAndTextAccepted ==
  {"to", "text"} \subseteq body.fields =>
    \A e \in last : ~(e.op = "respond" /\ e.kind = "send" /\ e.status = 400)

\* C24: a caller of ensureInitialized that awaited an attempt already in flight
\* gets the outcome of that attempt: when the attempt has completed successfully,
\* the step that resumes the caller does not reject it (no rejection leaves the
\* send handler that called it).
C24_WaiterSharesOutcome ==
  [][(\E p \in Procs : reqs[p].pc = "eiWait" /\ reqs[p].settled = "ok")
       => \A e \in last' : e.op # "unhandled"]_vars

\* C25: every attempt of a retry loop calls initialize() on a present client:
\* no attempt fails because s.client is null when the loop comes to it.
C25_RetryInitializesClient ==
  \A l \in LoopIds : loops[l].pc # "free" => loops[l].err # "no_client"

\* C26: in src/server.js the initializing handle of a SessionState never names
\* an attempt that has finished: it is cleared when the attempt ends, so that a
\* later ensureInitialized starts a new attempt.
C26_HandleClearedWhenFinished ==
  \A s \in StateIds :
    states[s].initializing # 0 =>
      loops[states[s].initializing].pc \notin {"doneOk", "doneRej"}

\* C27: in src/server.js at most one client.initialize() call of the tenant is
\* outstanding at any time.
C27_OneInitializeOutstanding ==
  Cardinality({l \in LoopIds : loops[l].pc \in {"init", "float"}}) <= 1

\* C28: every pending idle timer (full-length or re-check) is the one the
\* tenant's SessionState refers to by its idleTimer field, so the tenant has at
\* most one.
C28_OnePendingTimer ==
  \A x \in TimerIds :
    timers[x].status = "pending" => sessions # 0 /\ states[sessions].idleTimer = x

Handed == {p \in Procs : reqs[p].pc = "wfc" /\ reqs[p].c # 0}

\* C30: no request handler is handed a client on which destroy() has already
\* been started: in a step in which waitForReady returns a client to one more
\* handler, a client held by such a handler is being destroyed (or is destroyed)
\* only if that was so for a handler before the step.
C30_NoDestroyedClientHanded ==
  [][Cardinality(Handed') > Cardinality(Handed)
       => \/ \A p \in Handed' : clients'[reqs'[p].c].life \notin {"closing", "closed"}
          \/ \E q \in Handed : clients[reqs[q].c].life \in {"closing", "closed"}]_vars

\* the calls of waitForReady in their race, and those of them whose client has
\* emitted 'qr'
Racing == {p \in Procs : reqs[p].pc = "race"}
RacingOnQr == {p \in Racing : clients[reqs[p].c].conn = "qr"}

\* C31: a racing waitForReady settles once and cleans up: a call that is not
\* (or no longer) racing has none of its four listeners subscribed and no
\* timeout pending, a racing one has all of them; and a 'qr' event during the
\* wait rejects it: no step other than the start of a race leaves one more call
\* racing on a client that has emitted 'qr'.
C31_RaceCleansUp ==
  [][/\ \A p \in Procs :
          /\ reqs'[p].pc # "race" => reqs'[p].subs = {} /\ ~reqs'[p].tmo
          /\ reqs'[p].pc = "race" => reqs'[p].subs = RaceEvents /\ reqs'[p].tmo
     /\ Cardinality(Racing') <= Cardinality(Racing)
          => Cardinality(RacingOnQr') <= Cardinality(RacingOnQr)]_vars

\* two sends racing on one client have both been answered 'authentication
\* required' by its 'qr' event, and nothing of their races is left
C31_QrRejected ==
  /\ \E e, f \in last : /\ e # f
                        /\ e.op = "respond" /\ e.err = "auth_required"
                        /\ f.op = "respond" /\ f.err = "auth_required"
  /\ \E c \in ClientIds : clients[c].conn = "qr"
  /\ \A p \in Procs : reqs[p].subs = {} /\ ~reqs[p].tmo

\* a send handler that has just set busy and calls waitForReady(state) with the
\* SessionState s
calling(p, s) ==
  [Cur EXCEPT !.reqs[p] = [NoReq EXCEPT !.kind = "send", !.pc = "start", !.s = s,
                                        !.via = "direct"],
              !.states[s].busy = TRUE]

\* C32: waitForReady called on a SessionState whose lastQR is set rejects at
\* once with 'Authentication required' (the handler's catch and finally run on
\* the state as it was): it subscribes to nothing, starts no timeout or poll
\* and does not await the initialization in flight.
C32_PendingQrRejectsAtOnce ==
  \A p \in Procs, s \in StateIds :
    (Idle(p) /\ states[s].lastQR # NULL)
      => waitForReady(calling(p, s), p) = sendCatch(calling(p, s), p, "auth_required")

\* the send handlers inside their try block
InProgress == {p \in Procs : SendInProgress(p)}

\* every timer of the model is pending and beyond the reach of setIdleReaper
\* (idleTimer does not hold it): a further setTimeout has no timer left in the
\* model, which therefore does not follow the program any further
TimersUsedUp ==
  \A x \in TimerIds :
    timers[x].status = "pending" /\ (sessions = 0 \/ states[sessions].idleTimer # x)

C34_ReadyHasNoError ==
  \A s \in StateIds : states[s].ready => states[s].lastError = NULL

\* C35: with IDLE_MS below 10000 (0 included) setIdleReaper never arms a timer,
\* so no idle timer is pending, no teardown callback runs and none has run.
C35_NoIdleTimerBelowMinimum ==
  IDLE_MS < MinIdleMs =>
    /\ \A x \in TimerIds : timers[x].status # "pending"
    /\ \A r \in ReapIds : reaps[r].pc = "free"
    /\ \A e \in last : e.op \notin {"reaping", "reaped"}

\* just below the minimum, the status of a tenant with a ready client has been
\* read (which calls setIdleReaper)
C35_PolledBelowMinimum ==
  /\ IDLE_MS = 9999
  /\ sessions # 0 /\ states[sessions].client # 0 /\ states[sessions].ready
  /\ \E e \in last : e.op = "respond" /\ e.kind = "status"

\* C36: once a tenant's registry entry has been removed, no client of the
\* removed SessionState is running or gets started: every client that is
\* starting or up belongs to the SessionState the registry holds.
C36_NoClientOfRemovedState ==
  \A c \in ClientIds :
    clients[c].life \in {"starting", "up"} => sessions # 0 /\ clients[c].owner = sessions

\* C37: no idle timer created for a removed SessionState is pending: a pending
\* full-length timer (whose callback holds the SessionState it was armed for)
\* belongs to the SessionState the registry holds.
C37_NoTimerOfRemovedState ==
  \A x \in TimerIds :
    (timers[x].status = "pending" /\ timers[x].kind = "reap")
      => sessions # 0 /\ timers[x].s = sessions

\* C38: the idle teardown never destroys a tenant's client while that tenant's
\* initialization is in flight: when the teardown callback has just called
\* destroy() on the client of a SessionState, that state's initializing is null.
C38_NoTeardownWhileInitializing ==
  \A e \in last : (e.op = "reaping" /\ e.tore) => states[e.s].initializing = 0

\* the clients that can emit events, and those of them their SessionState no
\* longer holds
Running == {c \in ClientIds : clients[c].life \in {"starting", "up"}}
Replaced == {c \in Running : states[clients[c].owner].client # c}

\* C39: an event emitted by a client that is no longer the tenant's current
\* client does not change the tenant's ready, lastQR or lastError and does not
\* re-arm its idle timer.  (A step in which a client's connection state changes
\* and no client starts or stops is an event; it comes from a stale client when
\* all running clients are.)
C39_StaleClientEventIgnored ==
  [][(/\ Running # {} /\ Replaced = Running
      /\ [c \in ClientIds |-> clients'[c].life] = [c \in ClientIds |-> clients[c].life]
      /\ [c \in ClientIds |-> clients'[c].conn] # [c \in ClientIds |-> clients[c].conn])
       => /\ sessions' = sessions
          /\ timers' = timers
          /\ sessions # 0 =>
                /\ states'[sessions].ready = states[sessions].ready
                /\ states'[sessions].lastQR = states[sessions].lastQR
                /\ states'[sessions].lastError = states[sessions].lastError]_vars

\* C40: a status request changes nothing in the SessionState except the idle
\* timer, which it arms; the firing of a full-length timer leaves lastError =
\* 'idle_destroyed'; and while the status of a tenant with a running client is
\* polled at intervals shorter than IDLE_MS, no idle teardown destroys a client.
C40_PolledTenantKeepsClient ==
  [][/\ (\E e \in last' : e.op = "respond" /\ e.kind = "status")
        => /\ sessions' = sessions
           /\ [states'[sessions] EXCEPT !.idleTimer = 0] = [states[sessions] EXCEPT !.idleTimer = 0]
           /\ states'[sessions].idleTimer \in TimerIds
           /\ timers'[states'[sessions].idleTimer].status = "pending"
     /\ \A e \in last' : e.op = "reaped" => states'[e.s].lastError = "idle_destroyed"
     /\ polled => \A e \in last' : ~(e.op \in {"reaping", "reaped"} /\ e.tore)]_vars

====
